---- MODULE Spec2Model ----
(***************************************************************************)
(* importcountries.py: the bulk loader of the geonames dumps.              *)
(*                                                                         *)
(* main.Run reads the configuration, optionally creates the tables, calls  *)
(* __populateTable for every source of the import list and, when           *)
(* transactions are enabled, commits once at the end.  __populateTable     *)
(* opens the source, selects the value map by basename, and for every      *)
(* non-comment line splits, cleans, projects and inserts it.               *)
(*                                                                         *)
(* Python strings are sequences of one-character strings.  Python values   *)
(* bound as parameters are tagged records: None, PyStr, PyInt, PyDate.     *)
(***************************************************************************)
EXTENDS Integers, Sequences, FiniteSets, TLC

\* ------------------------------------------------------------------------
\* Bounds of the model
\* ------------------------------------------------------------------------

\* Lines read from one source under Spec.
MaxLines == 3

\* Entries of the configured import list under Spec.
MaxSources == 2

\* Lines read from the one source of SpecLong.
MaxLongLines == 1003

\* Comment lines among them.
MaxLongComments == 1

\* ------------------------------------------------------------------------
\* Python values
\* ------------------------------------------------------------------------

None == [none |-> TRUE]

PyStr(s) == [s |-> s]

PyInt(n) == [n |-> n]

PyDate(y, m, d) == [y |-> y, m |-> m, d |-> d]

\* The result of a call that raised: the exception's type and what its
\* message carries.
Raised(type, msg, info) == [raise |-> type, msg |-> msg, info |-> info]

IsRaised(r) == "raise" \in DOMAIN r

NoError == [raise |-> "none", msg |-> "", info |-> <<>>]

\* ------------------------------------------------------------------------
\* str methods
\* ------------------------------------------------------------------------

TAB == "\t"

NL == "\n"

\* The characters str.strip() removes that the sources can hold.
Whitespace == {" ", "\t", "\n", "\r"}

RECURSIVE LStrip(_)
LStrip(s) ==
    IF s # <<>> /\ Head(s) \in Whitespace THEN LStrip(Tail(s)) ELSE s

RECURSIVE RStrip(_)
RStrip(s) ==
    IF s # <<>> /\ s[Len(s)] \in Whitespace
    THEN RStrip(SubSeq(s, 1, Len(s) - 1))
    ELSE s

\* v.strip()
Strip(s) == RStrip(LStrip(s))

\* s.split(c) with an explicit separator: the segments between occurrences
\* of c; never empty ("".split(c) is [""]).
RECURSIVE SplitFrom(_, _, _, _)
SplitFrom(s, c, k, cur) ==
    IF k > Len(s) THEN <<cur>>
    ELSE IF s[k] = c THEN <<cur>> \o SplitFrom(s, c, k + 1, <<>>)
    ELSE SplitFrom(s, c, k + 1, Append(cur, s[k]))

Split(s, c) == SplitFrom(s, c, 1, <<>>)

\* c.join(parts)
RECURSIVE Join(_, _)
Join(parts, c) ==
    IF parts = <<>> THEN <<>>
    ELSE IF Len(parts) = 1 THEN parts[1]
    ELSE parts[1] \o <<c>> \o Join(Tail(parts), c)

\* ------------------------------------------------------------------------
\* Number and date parsing
\* ------------------------------------------------------------------------

Digits == <<"0", "1", "2", "3", "4", "5", "6", "7", "8", "9">>

IsDigit(c) == \E k \in 1..10 : Digits[k] = c

DigitVal(c) == (CHOOSE k \in 1..10 : Digits[k] = c) - 1

AllDigits(s) == s # <<>> /\ \A k \in 1..Len(s) : IsDigit(s[k])

RECURSIVE NatVal(_)
NatVal(s) ==
    IF s = <<>> THEN 0
    ELSE 10 * NatVal(SubSeq(s, 1, Len(s) - 1)) + DigitVal(s[Len(s)])

IsLeap(y) == (y % 4 = 0 /\ y % 100 # 0) \/ y % 400 = 0

DaysIn(y, m) ==
    IF m = 2 THEN (IF IsLeap(y) THEN 29 ELSE 28)
    ELSE IF m \in {4, 6, 9, 11} THEN 30
    ELSE 31

\* The month directive matches 1[0-2], 0[1-9] or [1-9].
MonthText(s) == AllDigits(s) /\ Len(s) \in {1, 2} /\ NatVal(s) \in 1..12

\* The day directive matches 3[01], [12]\d, 0[1-9], [1-9] or " [1-9]".
DayText(s) ==
    \/ AllDigits(s) /\ Len(s) \in {1, 2} /\ NatVal(s) \in 1..31
    \/ Len(s) = 2 /\ s[1] = " " /\ IsDigit(s[2]) /\ s[2] # "0"

DayVal(s) == IF s[1] = " " THEN DigitVal(s[2]) ELSE NatVal(s)

\* datetime.datetime.strptime(v, '%Y-%m-%d'): the date, or ValueError whose
\* message quotes the data string.
Strptime(v) ==
    LET parts == Split(v, "-")
        bad == Raised("ValueError", "time data does not match format",
                      [value |-> v])
    IN  IF Len(parts) # 3 THEN bad
        ELSE IF ~(AllDigits(parts[1]) /\ Len(parts[1]) = 4) THEN bad
        ELSE IF ~MonthText(parts[2]) \/ ~DayText(parts[3]) THEN bad
        ELSE LET y == NatVal(parts[1])
                 m == NatVal(parts[2])
                 d == DayVal(parts[3])
             IN  IF y < 1 \/ d > DaysIn(y, m) THEN bad ELSE PyDate(y, m, d)

\* A decimal literal float() accepts: [sign] digits [. [digits]] or
\* [sign] . digits.  (Exponents, inf and nan are outside the inputs drawn.)
Unsigned(s) == IF s # <<>> /\ s[1] \in {"+", "-"} THEN Tail(s) ELSE s

IsDecimal(s) ==
    LET parts == Split(Unsigned(s), ".")
    IN  \/ Len(parts) = 1 /\ AllDigits(parts[1])
        \/ /\ Len(parts) = 2
           /\ parts[1] = <<>> \/ AllDigits(parts[1])
           /\ parts[2] = <<>> \/ AllDigits(parts[2])
           /\ parts[1] # <<>> \/ parts[2] # <<>>

\* int(float(v)): the literal truncated toward zero, or ValueError whose
\* message quotes the string.
IntFloat(v) ==
    IF ~IsDecimal(v)
    THEN Raised("ValueError", "could not convert string to float",
                [value |-> v])
    ELSE LET whole == NatVal(Split(Unsigned(v), ".")[1])
         IN  PyInt(IF v[1] = "-" THEN -whole ELSE whole)

\* ------------------------------------------------------------------------
\* The value maps of __populateTable
\* ------------------------------------------------------------------------

\* A rule ('col', d) with d an int.
Idx(col, d) == [col |-> col, kind |-> "int", idx |-> d]

\* A rule ('col', (d, fn)) with d an int and fn a lambda.
Fn(col, d, fn) == [col |-> col, kind |-> "tuple", idx |-> d, fn |-> fn]

\* Variant of Segment that indexes the segments from 1.
SegmentOffByOne(v, k) ==
    IF v # None /\ Len(Split(v.s, ".")) > k + 1
    THEN PyStr(Split(v.s, ".")[k + 2])
    ELSE None

\* lambda v: v.split('.')[k] if v!=None and len(v.split('.'))>k else None
Segment(v, k) ==
    IF v # None /\ Len(Split(v.s, ".")) > k
    THEN PyStr(Split(v.s, ".")[k + 1])
    ELSE None

\* d[1](v): the lambda of a rule applied to a cleaned field.  strptime and
\* float raise TypeError on None.
Call(fn, v) ==
    IF fn.f = "segment" THEN Segment(v, fn.k)
    ELSE IF v = None
    THEN Raised("TypeError", "must be string", [value |-> v])
    ELSE IF fn.f = "strptime" THEN Strptime(v.s)
    ELSE IntFloat(v.s)

GeonameMap ==
    << Idx("id", 0), Idx("name", 1), Idx("asciiname", 2), Idx("lat", 4),
       Idx("lng", 5), Idx("feat_class", 6), Idx("feat_code", 7),
       Idx("country_code", 8), Idx("admin1_code", 10),
       Idx("admin2_code", 11), Idx("admin3_code", 12),
       Idx("admin4_code", 13), Idx("population", 14), Idx("elevation", 15),
       Idx("gtopo30", 16), Idx("timezone", 17),
       Fn("mod_date", 18, [f |-> "strptime"]) >>

CountriesMap ==
    << Idx("id", 0), Idx("iso3", 1), Idx("iso_numeric", 2), Idx("fips", 3),
       Idx("name", 4), Idx("capital", 5),
       Fn("area", 6, [f |-> "intfloat"]),
       Idx("population", 7), Idx("continent", 8), Idx("tld", 9),
       Idx("currency_code", 10), Idx("currency_name", 11),
       Idx("phone", 12), Idx("postal_code_format", 13),
       Idx("postal_code_regex", 14) >>

GeoadminsMap ==
    << Fn("country_code", 0, [f |-> "segment", k |-> 0]),
       Fn("admin1_code", 0, [f |-> "segment", k |-> 1]),
       Fn("admin2_code", 0, [f |-> "segment", k |-> 2]),
       Fn("admin3_code", 0, [f |-> "segment", k |-> 3]),
       Fn("admin4_code", 0, [f |-> "segment", k |-> 4]),
       Idx("name", 1), Idx("asciiname", 2) >>

AdminRoots == {"admin1CodesASCII", "admin2Codes"}

KnownRoots == {"allCountries", "countryInfo"} \cup AdminRoots

\* The if/elif on root: table, valmap, linelen, identity.
Descriptor(root) ==
    IF root = "allCountries"
    THEN [table |-> "geoname", valmap |-> GeonameMap, linelen |-> 19,
          identity |-> TRUE]
    ELSE IF root = "countryInfo"
    THEN [table |-> "countries", valmap |-> CountriesMap, linelen |-> 19,
          identity |-> FALSE]
    ELSE [table |-> "geoadmins", valmap |-> GeoadminsMap, linelen |-> 4,
          identity |-> FALSE]

\* ------------------------------------------------------------------------
\* One line: comment test, cleaning, projection
\* ------------------------------------------------------------------------

\* Variant of IsComment without the test.
IsCommentNever(line) == FALSE

\* line[0] == '#'
IsComment(line) == line[1] = "#"

\* clean(v): strip, then None for the empty string.
Clean(v) == IF Strip(v) = <<>> THEN None ELSE PyStr(Strip(v))

\* l = map(clean, l)
CleanAll(l) == [k \in 1..Len(l) |-> Clean(l[k])]

\* Variant of ApplyRule without the test for None.
ApplyRuleAlwaysCall(d, l) ==
    IF d.kind = "int"
    THEN [val |-> l[d.idx + 1], called |-> FALSE]
    ELSE [val |-> Call(d.fn, l[d.idx + 1]), called |-> TRUE]

\* The body of "for k in valmap.keys()" for one rule d over the cleaned
\* fields l: the value appended to p, and whether d[1] was called.
ApplyRule(d, l) ==
    IF d.kind = "int"
    THEN [val |-> l[d.idx + 1], called |-> FALSE]
    ELSE IF l[d.idx + 1] = None
    THEN [val |-> None, called |-> FALSE]
    ELSE [val |-> Call(d.fn, l[d.idx + 1]), called |-> TRUE]

\* "Build parameters": the rules in order from rule k on; p are the values
\* appended, calls the columns whose lambda was called, exc the exception
\* of the lambda that raised (the loop ends there).
RECURSIVE BuildFrom(_, _, _, _, _)
BuildFrom(valmap, l, k, p, calls) ==
    IF k > Len(valmap) THEN [p |-> p, calls |-> calls, exc |-> NoError]
    ELSE LET d == valmap[k]
             r == ApplyRule(d, l)
             called == IF r.called THEN Append(calls, d.col) ELSE calls
         IN  IF IsRaised(r.val)
             THEN [p |-> p, calls |-> called, exc |-> r.val]
             ELSE BuildFrom(valmap, l, k + 1, Append(p, r.val), called)

BuildParams(valmap, l) == BuildFrom(valmap, l, 1, <<>>, <<>>)

\* Variant of InvalidLine that reports the 1-based row.
InvalidLineNext(i, n) ==
    Raised("RuntimeError", "Unvalid line", [row |-> i + 1, len |-> n])

\* 'Unvalid line %s: len %s' % (i, len(l))
InvalidLine(i, n) ==
    Raised("RuntimeError", "Unvalid line", [row |-> i, len |-> n])

\* The exception of cursor.execute, re-raised as it is.
ExecuteError == Raised("pyodbc.Error", "execute", <<>>)

\* The 1000 of "if not i % 1000".
ProgressEvery == 1000

\* Variant of TickDue that tests the 1-based row.
TickDueAfter(i) == (i + 1) % ProgressEvery = 0

\* if not i % 1000
TickDue(i) == i % ProgressEvery = 0

\* Variant of CommitCalls that ignores the flag.
CommitCallsAlways(commit) == 1

\* if commit: self.__db.commit()  -- the number of commit calls made.
CommitCalls(commit) == IF commit THEN 1 ELSE 0

\* ------------------------------------------------------------------------
\* Inputs: the configured sources and the lines they hold
\* ------------------------------------------------------------------------

\* os.path.splitext(os.path.basename(filename)) of the configured paths.
Files ==
    { [root |-> "allCountries", ext |-> ".zip"],
      [root |-> "countryInfo", ext |-> ".txt"],
      [root |-> "admin1CodesASCII", ext |-> ".txt"],
      [root |-> "admin2Codes", ext |-> ".zip"],
      [root |-> "allCountries", ext |-> ".csv"],
      [root |-> "cities15000", ext |-> ".zip"] }

LongFiles == { [root |-> "allCountries", ext |-> ".zip"] }

A == <<"a">>

One == <<"1">>

Empty == <<>>

Blank == <<" ">>

GoodDate == <<"2", "0", "1", "2", "-", "0", "3", "-", "0", "1">>

NotADate == <<"n", "o", "t", "-", "a", "-", "d", "a", "t", "e">>

NoSuchDay == <<"2", "0", "1", "3", "-", "0", "2", "-", "2", "9">>

GoodArea == <<"3", "5", "7", "0", "2", "1", ".", "7", "4">>

UsCa037 == <<"U", "S", ".", "C", "A", ".", "0", "3", "7">>

SixDeep == <<"A", ".", "B", ".", "C", ".", "D", ".", "E", ".", "F">>

FiveDeep == <<"A", ".", "B", ".", "C", ".", "D", ".", "E">>

EmptySegment == <<"U", "S", ".", ".", "7">>

\* The 19 fields of an allCountries record.
GeoRow(name, date) ==
    << One, name, A, Empty, One, One, A, A, A, Empty, A, Empty, Empty,
       Empty, One, Empty, One, A, date >>

\* The 19 fields of a countryInfo record.
CountryRow(area) ==
    << A, A, One, A, A, A, area, One, A, A, A, A, One, Empty, Empty, A,
       One, A, Empty >>

\* The 4 fields of an admin1CodesASCII or admin2Codes record.
AdminRow(key) == << key, A, A, One >>

\* A line as the file iterator yields it.
Line(fields) == Join(fields, TAB) \o <<NL>>

Comments == { <<"#", "a", NL>>, <<"#", TAB, "a", NL>> }

GeoLines ==
    { Line(GeoRow(A, d)) : d \in {GoodDate, NotADate, NoSuchDay, Empty, Blank} }
    \cup { Line(GeoRow(<<" ", "a", " ">>, GoodDate)),
           Line(SubSeq(GeoRow(A, GoodDate), 1, 18)),
           <<"#">> \o Line(GeoRow(A, GoodDate)) }

CountryLines ==
    { Line(CountryRow(a)) : a \in {GoodArea, One, A, Empty, Blank} }
    \cup { Line(CountryRow(One) \o <<A>>),
           <<"#">> \o Line(CountryRow(One)) }

AdminLines ==
    { Line(AdminRow(k)) :
        k \in {UsCa037, <<"U", "S">>, FiveDeep, SixDeep, EmptySegment,
               Empty, Blank} }
    \cup { Line(<<UsCa037, A, A>>), Join(AdminRow(UsCa037), TAB) }

Lines(r) ==
    Comments \cup
    (IF r = "allCountries" THEN GeoLines
     ELSE IF r = "countryInfo" THEN CountryLines
     ELSE AdminLines)

LongLines(r) ==
    { Line(GeoRow(A, GoodDate)), <<"#", "a", NL>>,
      Line(GeoRow(A, NotADate)), Line(SubSeq(GeoRow(A, GoodDate), 1, 18)) }

\* ------------------------------------------------------------------------
\* State
\* ------------------------------------------------------------------------

\* The byte count "done" and the size of the source only feed the
\* percentage printed in a progress line; they are left out.
VARIABLES
    transate,    \* config: main.transate
    create,      \* config: main.create
    pc,          \* where Run is: start, next, reading, done, failed
    nsrc,        \* entries of the import list taken so far
    root,        \* basename of the source of this import
    handles,     \* the handles this import opened that are still open
    cursor,      \* statements executed on the cursor of this import
    i,           \* row index
    nread,       \* lines the iterator has yielded in this import
    ncomment,    \* of which start with '#'
    line,        \* the line being processed
    p,           \* its parameters
    calls,       \* the columns whose lambda was called for it
    ticks,       \* row indices of the progress lines logged in this import
    rowCommits,  \* commit calls made by this import
    runCommits,  \* commit calls made by Run and __createTables
    err          \* the exception that ended the run

vars ==
    << transate, create, pc, nsrc, root, handles, cursor, i, nread,
       ncomment, line, p, calls, ticks, rowCommits, runCommits, err >>

config == << transate, create >>

\* What the frame of __populateTable holds and what was observed of it.
frame ==
    << root, handles, cursor, i, nread, ncomment, line, p, calls, ticks,
       rowCommits >>

Exec(stmt, ok) == [stmt |-> stmt, ok |-> ok]

Init ==
    /\ transate \in BOOLEAN
    /\ create \in BOOLEAN
    /\ pc = "start"
    /\ nsrc = 0
    /\ root = ""
    /\ handles = {}
    /\ cursor = <<>>
    /\ i = 0
    /\ nread = 0
    /\ ncomment = 0
    /\ line = <<>>
    /\ p = <<>>
    /\ calls = <<>>
    /\ ticks = <<>>
    /\ rowCommits = 0
    /\ runCommits = 0
    /\ err = NoError

\* Variant of Raise in which the exception is swallowed.
RaiseAndGoOn(e) == pc' = pc /\ err' = e

\* raise e: nothing catches it, the run ends.
Raise(e) == pc' = "failed" /\ err' = e

\* The handles __populateTable opens for a path with extension ext.
Opened(ext) == IF ext = ".zip" THEN {"zf", "acf"} ELSE {"acf"}

\* Run up to the import loop: the transate flag and __createTables, whose
\* statements run on a cursor of its own.
Start ==
    /\ pc = "start"
    /\ IF ~create
       THEN pc' = "next" /\ UNCHANGED << runCommits, err >>
       ELSE \E ok \in BOOLEAN :
              IF ~ok
              THEN Raise(ExecuteError) /\ UNCHANGED runCommits
              ELSE /\ runCommits' = runCommits + CommitCalls(~transate)
                   /\ pc' = "next"
                   /\ UNCHANGED err
    /\ UNCHANGED << config, nsrc, frame >>

\* __populateTable up to the loop, for the next entry of the import list:
\* a new frame, a new cursor.
OpenSource(files, maxSources) ==
    /\ pc = "next"
    /\ nsrc < maxSources
    /\ \E f \in files :
         /\ nsrc' = nsrc + 1
         /\ root' = f.root
         /\ i' = 0
         /\ nread' = 0
         /\ ncomment' = 0
         /\ line' = <<>>
         /\ p' = <<>>
         /\ calls' = <<>>
         /\ ticks' = <<>>
         /\ rowCommits' = 0
         /\ IF f.ext \notin {".zip", ".txt"}
            THEN /\ Raise(Raised("RuntimeError", "Unknown file extension",
                                 [ext |-> f.ext]))
                 /\ cursor' = <<>>
                 /\ handles' = {}
            ELSE /\ handles' = Opened(f.ext)
                 /\ IF f.root \notin KnownRoots
                    THEN /\ Raise(Raised("RuntimeError", "Uknown file",
                                         [root |-> f.root]))
                         /\ cursor' = <<>>
                    ELSE IF ~Descriptor(f.root).identity
                    THEN /\ cursor' = <<>>
                         /\ pc' = "reading"
                         /\ UNCHANGED err
                    ELSE \E ok \in BOOLEAN :
                           /\ cursor' = <<Exec("ON", ok)>>
                           /\ IF ok
                              THEN pc' = "reading" /\ UNCHANGED err
                              ELSE Raise(ExecuteError)
    /\ UNCHANGED << config, runCommits >>

\* One iteration of "for line in acf".
ProcessLine(lines, maxLines, maxComments) ==
    /\ pc = "reading"
    /\ nread < maxLines
    /\ \E ln \in lines :
         LET d == Descriptor(root)
             l == Split(ln, TAB)
             b == BuildParams(d.valmap, CleanAll(l))
         IN  /\ ln[1] = "#" => ncomment < maxComments
             /\ line' = ln
             /\ nread' = nread + 1
             /\ ncomment' = ncomment + (IF ln[1] = "#" THEN 1 ELSE 0)
             /\ IF IsComment(ln)
                THEN UNCHANGED << pc, err, i, cursor, p, calls, ticks,
                                  rowCommits >>
                ELSE IF Len(l) # d.linelen
                THEN /\ Raise(InvalidLine(i, Len(l)))
                     /\ UNCHANGED << i, cursor, p, calls, ticks, rowCommits >>
                ELSE /\ p' = b.p
                     /\ calls' = b.calls
                     /\ IF b.exc # NoError
                        THEN /\ Raise(b.exc)
                             /\ UNCHANGED << i, cursor, ticks, rowCommits >>
                        ELSE \E ok \in BOOLEAN :
                               /\ cursor' = Append(cursor, Exec("INS", ok))
                               /\ IF ~ok
                                  THEN /\ Raise(ExecuteError)
                                       /\ UNCHANGED << i, ticks, rowCommits >>
                                  ELSE /\ rowCommits' = rowCommits
                                            + CommitCalls(~transate)
                                       /\ ticks' = IF TickDue(i)
                                                   THEN Append(ticks, i)
                                                   ELSE ticks
                                       /\ i' = i + 1
                                       /\ UNCHANGED << pc, err >>
    /\ UNCHANGED << config, nsrc, root, handles, runCommits >>

\* The end of the file: the loop ends, identity insert is switched off and
\* __populateTable returns; line and p go with the frame.  Nothing closes
\* acf or zf; whether the interpreter finalises them when the frame goes is
\* its choice.
EndOfFile ==
    /\ pc = "reading"
    /\ IF Descriptor(root).identity
       THEN \E ok \in BOOLEAN :
              /\ cursor' = Append(cursor, Exec("OFF", ok))
              /\ IF ok
                 THEN /\ pc' = "next"
                      /\ UNCHANGED err
                      /\ handles' \in {handles, {}}
                 ELSE Raise(ExecuteError) /\ UNCHANGED handles
       ELSE /\ pc' = "next"
            /\ handles' \in {handles, {}}
            /\ UNCHANGED << cursor, err >>
    /\ line' = <<>>
    /\ p' = <<>>
    /\ calls' = <<>>
    /\ UNCHANGED << config, nsrc, root, i, nread, ncomment, ticks,
                    rowCommits, runCommits >>

\* The import list is exhausted: the commit of Run.
Finish ==
    /\ pc = "next"
    /\ nsrc >= 1
    /\ runCommits' = runCommits + CommitCalls(transate)
    /\ pc' = "done"
    /\ UNCHANGED << config, nsrc, frame, err >>

Next ==
    \/ Start
    \/ OpenSource(Files, MaxSources)
    \/ ProcessLine(Lines(root), MaxLines, MaxLines)
    \/ EndOfFile
    \/ Finish

Spec == Init /\ [][Next]_vars

\* A run over one long source.
NextLong ==
    \/ Start
    \/ OpenSource(LongFiles, 1)
    \/ ProcessLine(LongLines(root), MaxLongLines, MaxLongComments)
    \/ EndOfFile
    \/ Finish

SpecLong == Init /\ [][NextLong]_vars

\* ------------------------------------------------------------------------
\* Properties
\* ------------------------------------------------------------------------

\* The statements of kind stmt executed on the cursor.
Count(stmt) == Cardinality({k \in 1..Len(cursor) : cursor[k].stmt = stmt})

\* The inserts that succeeded.
Inserted == Cardinality({k \in 1..Len(cursor) : cursor[k] = Exec("INS", TRUE)})

ImportOver == pc \in {"next", "done", "failed"}

\* The line was split and projected: not a comment, the expected count.
Projected ==
    /\ pc \in {"reading", "failed"}
    /\ line # <<>>
    /\ line[1] # "#"
    /\ Len(Split(line, TAB)) = Descriptor(root).linelen

\* The sample lines the loader has to reject, listed by hand.
RejectedLines ==
    { Line(GeoRow(A, NotADate)), Line(GeoRow(A, NoSuchDay)),
      Line(SubSeq(GeoRow(A, GoodDate), 1, 18)),
      Line(CountryRow(A)), Line(CountryRow(One) \o <<A>>),
      Line(<<UsCa037, A, A>>) }

IsBlankText(f) == \A k \in 1..Len(f) : f[k] \in {" ", "\t", "\n", "\r"}

\* C1: in an import of allCountries whose SET IDENTITY_INSERT ON went
\* through, once the import is over (completed or failed) ON was executed
\* exactly once and first, and OFF exactly once and last.
IdentityBracket ==
    (ImportOver /\ root = "allCountries" /\ cursor # <<>> /\ cursor[1].ok)
    => /\ Count("ON") = 1
       /\ cursor[1].stmt = "ON"
       /\ Count("OFF") = 1
       /\ cursor[Len(cursor)].stmt = "OFF"

\* The run ended on a SET IDENTITY_INSERT statement that failed.
ToggleFailed ==
    /\ cursor # <<>>
    /\ cursor[Len(cursor)].stmt \in {"ON", "OFF"}
    /\ ~cursor[Len(cursor)].ok

\* C2: in no terminal state of the run (done, or failed on an unknown
\* basename, a field-count mismatch, a transform or an insert) is a handle
\* of the import still open.
HandlesReleased ==
    (pc \in {"done", "failed"} /\ ~ToggleFailed) => handles = {}

\* C3: a failure ends the run: no step is taken from the failed state (no
\* later line, no later source), a rejected line or a failed insert leads
\* to the failed state with the row index, the commits and the progress
\* lines as they were, and the failed state carries the exception.
AbortsOnFailure ==
    [][ /\ pc = "failed" => UNCHANGED vars
        /\ ( /\ pc = "reading"
             /\ nread' = nread + 1
             /\ \/ line' \in RejectedLines
                \/ /\ Len(cursor') = Len(cursor) + 1
                   /\ ~cursor'[Len(cursor')].ok )
           => /\ pc' = "failed"
              /\ i' = i
              /\ rowCommits' = rowCommits
              /\ ticks' = ticks
        /\ pc' = "failed" => err' # NoError
        /\ pc' # "failed" => \A k \in 1..Len(cursor') : cursor'[k].ok
      ]_vars

FailedAtSecondRow ==
    /\ pc = "failed"
    /\ err.raise = "ValueError"
    /\ i = 1
    /\ nsrc = 1
    /\ nread < MaxLines

\* C4: with transactions disabled the import has committed once per
\* successful insert whenever it is between two lines; with transactions
\* enabled no import commits, and Run commits exactly once, on reaching the
\* end of the import list, and never when a source failed.
CommitPolicy ==
    /\ transate => /\ rowCommits = 0
                   /\ runCommits = (IF pc = "done" THEN 1 ELSE 0)
    /\ ~transate => /\ rowCommits = Inserted
                    /\ runCommits =
                         (IF create /\ pc # "start" /\ ~(pc = "failed" /\ nsrc = 0)
                          THEN 1 ELSE 0)

DeferredCommitAfterTwoSources ==
    /\ transate
    /\ pc = "done"
    /\ nsrc = 2
    /\ Inserted >= 2
    /\ runCommits = 1

CommentsSkipped ==
    [][ /\ (pc = "reading" /\ nread' = nread + 1 /\ line'[1] = "#")
           => /\ pc' = "reading"
              /\ err' = NoError
              /\ cursor' = cursor
              /\ ticks' = ticks
              /\ i' = i
        /\ pc' = "reading" => i' = nread' - ncomment'
      ]_vars

CommentBetweenRows ==
    /\ pc = "reading"
    /\ line = <<"#">> \o Line(GeoRow(A, GoodDate))
    /\ i = 1
    /\ nread = 3
    /\ ncomment = 2

\* C7: for a projected line and every rule (index, transform): when the
\* field is empty or whitespace-only the lambda is not called and the
\* parameter is None; otherwise the lambda is called.
AbsentShortCircuit ==
    Projected =>
      LET valmap == Descriptor(root).valmap
          l == Split(line, TAB)
      IN  \A k \in 1..Len(valmap) :
            valmap[k].kind = "tuple" =>
              IF IsBlankText(l[valmap[k].idx + 1])
              THEN /\ \A c \in 1..Len(calls) : calls[c] # valmap[k].col
                   /\ Len(p) = Len(valmap)
                   /\ p[k] = None
              ELSE \E c \in 1..Len(calls) : calls[c] = valmap[k].col

BlankAreaNotTransformed ==
    /\ pc = "reading"
    /\ root = "countryInfo"
    /\ line = Line(CountryRow(Blank))
    /\ calls = <<>>
    /\ p[7] = None

\* C8: the progress lines of an import are exactly those of the inserted
\* rows 0, 1000, 2000, ..., in order, one each: a row that failed and a
\* comment line log none.
ProgressTicks ==
    /\ i = Inserted
    /\ Len(ticks) = (i + 999) \div 1000
    /\ \A j \in 1..Len(ticks) : ticks[j] = (j - 1) * 1000

\* Rows 0 and 1 are inserted around a comment line: one progress line, for
\* row 0.
OneTickForTwoRows ==
    /\ pc = "reading"
    /\ ncomment = 1
    /\ i = 2
    /\ Inserted = 2
    /\ ticks = <<0>>

\* C9: for a projected admin line with a non-blank key, the first five
\* parameters are the first five dot-free pieces of the stripped key, in
\* order, and None from the position where the key runs out; no depth
\* raises.
AdminSegments ==
    (Projected /\ root \in AdminRoots /\ ~IsBlankText(Split(line, TAB)[1]))
    => LET key == Strip(Split(line, TAB)[1])
           n == Cardinality({k \in 1..Len(key) : key[k] = "."}) + 1
           m == IF n < 5 THEN n ELSE 5
           joined == Join([k \in 1..m |-> p[k].s], ".")
       IN  /\ err = NoError \/ err = ExecuteError
           /\ Len(p) = 7
           /\ \A k \in 1..5 :
                IF k <= n
                THEN /\ DOMAIN p[k] = {"s"}
                     /\ \A c \in 1..Len(p[k].s) : p[k].s[c] # "."
                ELSE p[k] = None
           /\ joined = SubSeq(key, 1, Len(joined))
           /\ n <= 5 => joined = key
           /\ n > 5 => key[Len(joined) + 1] = "."
           /\ key = UsCa037 =>
                SubSeq(p, 1, 5) = << PyStr(<<"U", "S">>), PyStr(<<"C", "A">>),
                                     PyStr(<<"0", "3", "7">>), None, None >>

UsCa037Split ==
    /\ pc = "reading"
    /\ line = Line(AdminRow(UsCa037))
    /\ p[3] = PyStr(<<"0", "3", "7">>)
    /\ p[4] = None

\* C10: the exception of a transform that raised carries the destination
\* column, the row index and the raw value, and the row is not inserted.
TransformFailureTagged ==
    (pc = "failed" /\ err.raise = "ValueError")
    => /\ {"column", "row", "value"} \subseteq DOMAIN err.info
       /\ Count("INS") = i

====
